---- MODULE Spec2Model ----
(***************************************************************************)
(* The HTTP/2 client transport of transport.go: the connection pool of a   *)
(* Transport (one authority key), the clientConn with its writer chain     *)
(* (Framer -> bufio.Writer -> stickyErrWriter -> tls.Conn), the request    *)
(* executor do, the request-body DATA writer, the CONNECT tunnel and the   *)
(* reader task readLoop.  Every goroutine is a process with a program      *)
(* counter; a mutex is a variable naming its holder.                       *)
(***************************************************************************)
EXTENDS Integers, Sequences, FiniteSets, TLC

\* ---------------------------------------------------------------- bounds
MaxReqs == 2          \* callers of RoundTrip / Connect
MaxConns == 2         \* connections that can be dialed successfully
MaxPeerFrames == 3    \* frames the peer sends in one behaviour
MaxHdrLen == 2        \* bytes of an encoded header block
MaxFrameSz == 1       \* largest small MAX_FRAME_SIZE the peer advertises
MaxBody == 2          \* largest request ContentLength
MaxSweeps == 1        \* calls of CloseIdleConnections
MaxTunnelWrites == 1  \* Write calls on one tunnel
MaxWire == 6          \* frames followed on one connection where a loop may not end

\* ------------------------------------------------------ program constants
MaxStreamID == 2147483647
DefaultMaxFrameSize == 16384
DefaultMaxConcurrentStreams == 1000
maxRetryRequest == 3

Reqs == 1..MaxReqs
Conns == 1..MaxConns

\* A uint32 is held as an integer of the checker: a value below 2^31 as
\* itself, a value v from 2^31 on as v - 2^32 (its two's complement).
\* Uint32Add2 is "n += 2" and Uint32Less is "a < b" of the uint32s.
Uint32Add2(n) == IF n > MaxStreamID - 2 THEN (n - MaxStreamID) - MaxStreamID ELSE n + 2
Uint32Less(a, b) == IF (a >= 0) = (b >= 0) THEN a < b ELSE a >= 0

VARIABLES
  connMu,   \* Transport.connMu: its holder
  conns,    \* Transport.conns[key]: the connections of the authority, in order
  nconn,    \* number of clientConn objects created so far
  mu,       \* clientConn.mu of each connection: its holder
  cc,       \* clientConn: closed, goAway, streams, nextStreamID, peer settings
  wr,       \* clientConn writer chain: werr, bufio error, frames written, frames on the socket
  sock,     \* clientConn.tconn: "none", "open", "closed" (tconn.Close), "broken" (peer or network)
  rd,       \* readLoop of each connection: its position and its locals
  cs,       \* the clientStream objects of each connection, by ID
  req,      \* the callers of RoundTrip / Connect: position and locals
  dw,       \* the io.Copy goroutine of each request with its dataFrameWriter
  sweep,    \* the caller of CloseIdleConnections
  npeer     \* frames the peer has sent

vars == <<connMu, conns, nconn, mu, cc, wr, sock, rd, cs, req, dw, sweep, npeer>>

\* ------------------------------------------------------------ identities
Free == <<"free", 0>>
ReqTask(r) == <<"req", r>>
ReaderTask(c) == <<"reader", c>>
SweepTask == <<"sweep", 0>>

\* ------------------------------------------------------------------ frames
\* A frame handed to the Framer by this client.
HeadersFrame(id, frag, endStream, endHeaders) ==
  [type |-> "HEADERS", sid |-> id, es |-> endStream, eh |-> endHeaders, frag |-> frag, len |-> Len(frag)]
ContinuationFrame(id, endHeaders, frag) ==
  [type |-> "CONTINUATION", sid |-> id, es |-> FALSE, eh |-> endHeaders, frag |-> frag, len |-> Len(frag)]
DataFrame(id, endStream, n) ==
  [type |-> "DATA", sid |-> id, es |-> endStream, eh |-> FALSE, frag |-> <<>>, len |-> n]
RSTStreamFrame(id) ==
  [type |-> "RST_STREAM", sid |-> id, es |-> FALSE, eh |-> FALSE, frag |-> <<>>, len |-> 0]

\* Stream ids the peer uses: the odd ids this client can have allocated, one
\* even (pushed) id, and 0 for connection-level frames.
PeerOddIDs == {2 * n - 1 : n \in 1..MaxReqs}
PeerEvenIDs == {2}

\* Frames ReadFrame can return.  cl is the Content-Length field the header
\* block fragment carries (0: none, or "0"); the peer answers stream s with
\* Content-Length s.  HeadersFrame and DataFrame are streamEnders,
\* HeadersFrame and ContinuationFrame are headersEnders.
PeerFrames ==
  [type : {"HEADERS"}, sid : PeerOddIDs \cup PeerEvenIDs, es : BOOLEAN, eh : BOOLEAN, cl : {0, 1}]
  \cup [type : {"CONTINUATION"}, sid : PeerOddIDs \cup PeerEvenIDs, es : {FALSE}, eh : BOOLEAN, cl : {0}]
  \cup [type : {"DATA"}, sid : PeerOddIDs, es : BOOLEAN, eh : {FALSE}, cl : {0}]
  \cup [type : {"GOAWAY"}, sid : {0, 1}, es : {FALSE}, eh : {FALSE}, cl : {0}]
  \cup [type : {"RST_STREAM"}, sid : PeerOddIDs, es : {FALSE}, eh : {FALSE}, cl : {0}]

NoFrame == [type |-> "none", sid |-> 0, es |-> FALSE, eh |-> FALSE, cl |-> 0]

\* http.Response as far as the transport fills it: sid is the stream whose
\* HEADERS frame created it, hdrCL its Header["Content-Length"] (0: absent or "0").
NoRes == [sid |-> 0, hdrCL |-> 0, ContentLength |-> 0]
NewResponse(id) == [sid |-> id, hdrCL |-> 0, ContentLength |-> 0]

\* onNewHeaderField for the fields of one fragment.
OnNewHeaderField(res, f) ==
  IF f.cl # 0 THEN [res EXCEPT !.hdrCL = f.cl * f.sid] ELSE res

\* clientStream created by newStream: resc has capacity 1, pr and pw are nil.
\* nres counts the results the reader has sent on resc.
NewClientStream == [resc |-> <<>>, pipe |-> "nil", piped |-> 0, nres |-> 0]

\* ---------------------------------------------------------------- initial
NoConn ==
  [closed |-> FALSE, goAway |-> FALSE, streams |-> {}, nextStreamID |-> 1,
   maxFrameSize |-> DefaultMaxFrameSize, maxConcurrentStreams |-> DefaultMaxConcurrentStreams,
   alloc |-> <<>>]
NoWriter == [werr |-> "nil", berr |-> "nil", wire |-> <<>>, sent |-> 0]
NoReader ==
  [pc |-> "none", continueStreamID |-> 0, activeRes |-> {}, readerErr |-> "nil",
   f |-> NoFrame, nextRes |-> NoRes, sawGoAway |-> FALSE]
NoReq ==
  [pc |-> "idle", op |-> "none", contentLength |-> 0, hasBody |-> FALSE, block |-> <<>>,
   hdrs |-> <<>>, first |-> TRUE, i |-> 0, k |-> 0, cc |-> 0, id |-> 0, werr |-> "nil",
   pend |-> "nil", res |-> NoRes, err |-> "nil", twrites |-> 0]
NoCopy == [pc |-> "none", totalSize |-> 0, left |-> 0, pend |-> "nil", err |-> "nil"]

Init ==
  /\ connMu = Free
  /\ conns = <<>>
  /\ nconn = 0
  /\ mu = [c \in Conns |-> Free]
  /\ cc = [c \in Conns |-> NoConn]
  /\ wr = [c \in Conns |-> NoWriter]
  /\ sock = [c \in Conns |-> "none"]
  /\ rd = [c \in Conns |-> NoReader]
  /\ cs = [c \in Conns |-> <<>>]
  /\ req = [r \in Reqs |-> NoReq]
  /\ dw = [r \in Reqs |-> NoCopy]
  /\ sweep = [pc |-> "idle", k |-> 0, n |-> 0]
  /\ npeer = 0

\* A panic in any goroutine ends the process.
Running == \A c \in Conns : rd[c].pc # "panic"

\* ------------------------------------------------------------ writer chain
\* Framer.Write*: the frame goes into cc.bw, whose Write returns the bufio
\* error.  wire holds the frames in the order the Framer got them; the first
\* sent of them have reached the socket (a frame written after the bufio
\* error is set never does).
FramerWrite(w, f) == [w EXCEPT !.wire = Append(@, f)]
FramerErr(w) == w.berr

\* stickyErrWriter.Write on the bytes bufio holds: its error, and the writer after it.
SewErr(w, s) ==
  IF w.werr # "nil" THEN w.werr
  ELSE IF s = "open" THEN "nil" ELSE "errWrite"
SewWrite(w, s) ==
  IF w.werr # "nil" THEN w
  ELSE IF s = "open" THEN [w EXCEPT !.sent = Len(w.wire), !.werr = "nil"]
  ELSE [w EXCEPT !.werr = "errWrite"]

\* bufio.Writer.Flush up to the return of the underlying Write ...
FlushErr(w, s) ==
  IF w.berr # "nil" THEN w.berr
  ELSE IF w.sent = Len(w.wire) THEN "nil"
  ELSE SewErr(w, s)
FlushBegin(w, s) ==
  IF w.berr # "nil" \/ w.sent = Len(w.wire) THEN w ELSE SewWrite(w, s)
\* ... and from there: bufio records the error it got.
FlushEnd(w, err) == IF err # "nil" THEN [w EXCEPT !.berr = err] ELSE w

\* -------------------------------------------------------- Transport pool
canTakeNewRequest(c) ==
  /\ ~cc[c].goAway
  /\ Cardinality(cc[c].streams) + 1 < cc[c].maxConcurrentStreams
  /\ Uint32Less(cc[c].nextStreamID, MaxStreamID)

filterOutClientConn(in, exclude) == SelectSeq(in, LAMBDA v : v # exclude)

\* MAX_FRAME_SIZE values of the peer's opening SETTINGS frame (none: the default stays).
SettingsMaxFrameSize == (1..MaxFrameSz) \cup {DefaultMaxFrameSize}

\* The peer's opening SETTINGS frame as newClientConn applies it.
Settings(Fs, Ns) == [maxFrameSize : Fs, maxConcurrentStreams : Ns]
DefaultSettings == Settings({DefaultMaxFrameSize}, {DefaultMaxConcurrentStreams})

\* RoundTrip / Connect is called with a request: its method (of Ops), its
\* ContentLength and the length (of Lens) of its encoded header block
\* (encodeHeaders always emits the four pseudo-headers, so the block is not
\* empty).  Byte j of the block is j.
RoundTrip(r, Ops, Lens) ==
  /\ Running
  /\ req[r].pc = "idle"
  /\ \E op \in Ops, L \in Lens :
       \E n \in IF op = "POST" THEN 1..MaxBody ELSE {0} :
         req' = [req EXCEPT ![r] = [@ EXCEPT !.pc = "getClientConn", !.op = op, !.i = 0,
                                              !.contentLength = n,
                                              !.block = [j \in 1..L |-> j]]]
  /\ UNCHANGED <<connMu, conns, nconn, mu, cc, wr, sock, rd, cs, dw, sweep, npeer>>

\* getClientConn: t.connMu.Lock()
getClientConnLock(r) ==
  /\ Running
  /\ req[r].pc = "getClientConn"
  /\ connMu = Free
  /\ connMu' = ReqTask(r)
  /\ req' = [req EXCEPT ![r].pc = "scan", ![r].k = 1]
  /\ UNCHANGED <<conns, nconn, mu, cc, wr, sock, rd, cs, dw, sweep, npeer>>

\* getClientConn: one iteration of the loop over t.conns[key]
getClientConnScan(r) ==
  /\ Running
  /\ req[r].pc = "scan"
  /\ req[r].k <= Len(conns)
  /\ LET c == conns[req[r].k] IN
       /\ mu[c] = Free
       /\ IF canTakeNewRequest(c)
            THEN /\ connMu' = Free
                 /\ req' = [req EXCEPT ![r].pc = "do", ![r].cc = c]
            ELSE /\ req' = [req EXCEPT ![r].k = @ + 1]
                 /\ UNCHANGED connMu
  /\ UNCHANGED <<conns, nconn, mu, cc, wr, sock, rd, cs, dw, sweep, npeer>>

\* newClientConn fails (dial, handshake, ALPN, preface, first frame): the
\* error is returned to the caller of RoundTrip, which does not retry.
newClientConnFail(r) ==
  /\ Running
  /\ req[r].pc = "scan"
  /\ req[r].k > Len(conns)
  /\ connMu' = Free
  /\ req' = [req EXCEPT ![r].pc = "done", ![r].err = "errDial"]
  /\ UNCHANGED <<conns, nconn, mu, cc, wr, sock, rd, cs, dw, sweep, npeer>>

\* The frames newClientConn writes and flushes before it starts the reader.
HandshakeFrames ==
  << [type |-> "SETTINGS", sid |-> 0, es |-> FALSE, eh |-> FALSE, frag |-> <<>>, len |-> 0],
     [type |-> "WINDOW_UPDATE", sid |-> 0, es |-> FALSE, eh |-> FALSE, frag |-> <<>>, len |-> 4],
     [type |-> "SETTINGS_ACK", sid |-> 0, es |-> FALSE, eh |-> FALSE, frag |-> <<>>, len |-> 0] >>

\* newClientConn succeeds: dial, handshake, preface, SETTINGS exchange, the
\* peer's settings applied (a SETTINGS frame of Ms), go cc.readLoop().  The
\* caller holds connMu.
newClientConn(r, Ms) ==
  /\ Running
  /\ req[r].pc = "scan"
  /\ req[r].k > Len(conns)
  /\ nconn < MaxConns
  /\ LET c == nconn + 1 IN
     \E M \in Ms :
       /\ nconn' = c
       /\ cc' = [cc EXCEPT ![c] = [NoConn EXCEPT !.maxFrameSize = M.maxFrameSize,
                                                  !.maxConcurrentStreams = M.maxConcurrentStreams]]
       /\ wr' = [wr EXCEPT ![c] = [NoWriter EXCEPT !.wire = HandshakeFrames,
                                                    !.sent = Len(HandshakeFrames)]]
       /\ sock' = [sock EXCEPT ![c] = "open"]
       /\ rd' = [rd EXCEPT ![c] = [NoReader EXCEPT !.pc = "read"]]
       /\ req' = [req EXCEPT ![r].pc = "append", ![r].cc = c]
  /\ UNCHANGED <<connMu, conns, mu, cs, dw, sweep, npeer>>

\* getClientConn: t.conns[key] = append(t.conns[key], cc); return (unlock)
getClientConnAppend(r) ==
  /\ Running
  /\ req[r].pc = "append"
  /\ conns' = Append(conns, req[r].cc)
  /\ connMu' = Free
  /\ req' = [req EXCEPT ![r].pc = "do"]
  /\ UNCHANGED <<nconn, mu, cc, wr, sock, rd, cs, dw, sweep, npeer>>

\* ------------------------------------------------------- request executor
\* A newStream that steps the id by one.
NextStreamIDByOne(n) == n + 1

\* newStream: cc.nextStreamID += 2
NextStreamID(n) == Uint32Add2(n)

\* do's choice of the next fragment's length.
ChunkLen(hdrs, maxFrameSize) ==
  IF Len(hdrs) > maxFrameSize THEN maxFrameSize ELSE Len(hdrs)

\* A loop that sets END_HEADERS one byte before the block is used up.
HeaderBlockFrameEarlyEnd(id, hdrs, maxFrameSize, first, hasBody) ==
  LET n == ChunkLen(hdrs, maxFrameSize)
      chunk == SubSeq(hdrs, 1, n)
      endHeaders == Len(hdrs) - n <= 1
  IN IF first THEN HeadersFrame(id, chunk, ~hasBody, endHeaders)
     ELSE ContinuationFrame(id, endHeaders, chunk)

\* The frame one iteration of do's loop writes.
HeaderBlockFrame(id, hdrs, maxFrameSize, first, hasBody) ==
  LET n == ChunkLen(hdrs, maxFrameSize)
      chunk == SubSeq(hdrs, 1, n)
      endHeaders == Len(hdrs) - n = 0
  IN IF first THEN HeadersFrame(id, chunk, ~hasBody, endHeaders)
     ELSE ContinuationFrame(id, endHeaders, chunk)

\* A do that returns errClientConnClosed without unlocking cc.mu.
doLockKeepLocked(r) ==
  /\ Running
  /\ req[r].pc = "do"
  /\ LET c == req[r].cc
         id == cc[c].nextStreamID
     IN
       /\ mu[c] = Free
       /\ mu' = [mu EXCEPT ![c] = ReqTask(r)]
       /\ IF cc[c].closed
            THEN /\ req' = [req EXCEPT ![r] =
                       IF @.i + 1 < maxRetryRequest
                         THEN [@ EXCEPT !.pc = "getClientConn", !.i = @ + 1]
                         ELSE [@ EXCEPT !.pc = "done", !.i = @ + 1, !.err = "errMaxRetry"]]
                 /\ UNCHANGED <<cc, cs>>
            ELSE /\ cc' = [cc EXCEPT ![c].nextStreamID = NextStreamID(id),
                                     ![c].streams = @ \cup {id},
                                     ![c].alloc = Append(@, id)]
                 /\ cs' = [cs EXCEPT ![c] = (id :> NewClientStream) @@ @]
                 /\ req' = [req EXCEPT ![r] =
                       [@ EXCEPT !.pc = "hdrs", !.id = id, !.first = TRUE, !.hdrs = req[r].block,
                                 !.hasBody = (req[r].contentLength > 0 \/ req[r].op = "CONNECT")]]
  /\ UNCHANGED <<connMu, conns, nconn, wr, sock, rd, dw, sweep, npeer>>

\* do, up to the header loop: lock; a closed connection is refused with
\* errClientConnClosed, which RoundTrip / Connect retries until the loop
\* counter reaches maxRetryRequest; otherwise newStream and encodeHeaders.
doLock(r) ==
  /\ Running
  /\ req[r].pc = "do"
  /\ LET c == req[r].cc
         id == cc[c].nextStreamID
     IN
       /\ mu[c] = Free
       /\ IF cc[c].closed
            THEN /\ req' = [req EXCEPT ![r] =
                       IF @.i + 1 < maxRetryRequest
                         THEN [@ EXCEPT !.pc = "getClientConn", !.i = @ + 1]
                         ELSE [@ EXCEPT !.pc = "done", !.i = @ + 1, !.err = "errMaxRetry"]]
                 /\ UNCHANGED <<mu, cc, cs>>
            ELSE /\ mu' = [mu EXCEPT ![c] = ReqTask(r)]
                 /\ cc' = [cc EXCEPT ![c].nextStreamID = NextStreamID(id),
                                     ![c].streams = @ \cup {id},
                                     ![c].alloc = Append(@, id)]
                 /\ cs' = [cs EXCEPT ![c] = (id :> NewClientStream) @@ @]
                 /\ req' = [req EXCEPT ![r] =
                       [@ EXCEPT !.pc = "hdrs", !.id = id, !.first = TRUE, !.hdrs = req[r].block,
                                 !.hasBody = (req[r].contentLength > 0 \/ req[r].op = "CONNECT")]]
  /\ UNCHANGED <<connMu, conns, nconn, wr, sock, rd, dw, sweep, npeer>>

\* do: one iteration of "for len(hdrs) > 0", holding cc.mu
doWriteHeaders(r) ==
  /\ Running
  /\ req[r].pc = "hdrs"
  /\ LET c == req[r].cc
         n == ChunkLen(req[r].hdrs, cc[c].maxFrameSize)
         rest == SubSeq(req[r].hdrs, n + 1, Len(req[r].hdrs))
     IN
       /\ wr' = [wr EXCEPT ![c] = FramerWrite(@, HeaderBlockFrame(req[r].id, req[r].hdrs,
                                       cc[c].maxFrameSize, req[r].first, req[r].hasBody))]
       /\ req' = [req EXCEPT ![r].hdrs = rest, ![r].first = FALSE,
                             ![r].pc = IF Len(rest) > 0 THEN "hdrs" ELSE "flush"]
  /\ UNCHANGED <<connMu, conns, nconn, mu, cc, sock, rd, cs, dw, sweep, npeer>>

\* do: cc.bw.Flush(), up to the return of stickyErrWriter.Write
doFlush(r) ==
  /\ Running
  /\ req[r].pc = "flush"
  /\ LET c == req[r].cc IN
       /\ wr' = [wr EXCEPT ![c] = FlushBegin(@, sock[c])]
       /\ req' = [req EXCEPT ![r].pc = "unlock", ![r].pend = FlushErr(wr[c], sock[c])]
  /\ UNCHANGED <<connMu, conns, nconn, mu, cc, sock, rd, cs, dw, sweep, npeer>>

\* do: Flush returns; werr := cc.werr; unlock; the body copier is started
\* when hasBody; a write error is returned, otherwise do waits on cs.resc.
doUnlock(r) ==
  /\ Running
  /\ req[r].pc = "unlock"
  /\ LET c == req[r].cc
         w == FlushEnd(wr[c], req[r].pend)
     IN
       /\ wr' = [wr EXCEPT ![c] = w]
       /\ mu' = [mu EXCEPT ![c] = Free]
       /\ dw' = [dw EXCEPT ![r] =
             IF req[r].hasBody
               THEN [NoCopy EXCEPT !.pc = IF req[r].contentLength > 0 THEN "copy" ELSE "done",
                                   !.totalSize = req[r].contentLength,
                                   !.left = req[r].contentLength]
               ELSE @]
       /\ req' = [req EXCEPT ![r] =
             IF w.werr # "nil"
               THEN [@ EXCEPT !.pc = "done", !.werr = w.werr, !.err = w.werr, !.pend = "nil"]
               ELSE [@ EXCEPT !.pc = "await", !.pend = "nil"]]
  /\ UNCHANGED <<connMu, conns, nconn, cc, sock, rd, cs, sweep, npeer>>

\* do: return <-cs.resc, then connect wraps the result in a clientDataConn
\* and roundTrip goes on to fill in the response.
doAwait(r) ==
  /\ Running
  /\ req[r].pc = "await"
  /\ LET c == req[r].cc
         id == req[r].id
     IN
       /\ Len(cs[c][id].resc) > 0
       /\ cs' = [cs EXCEPT ![c][id].resc = Tail(@)]
       /\ req' = [req EXCEPT ![r].res = Head(cs[c][id].resc),
                             ![r].pc = IF req[r].op = "CONNECT" THEN "tunnel" ELSE "roundTrip"]
  /\ UNCHANGED <<connMu, conns, nconn, mu, cc, wr, sock, rd, dw, sweep, npeer>>

\* roundTrip: ContentLength is taken from cc.nextRes.Header (when present and not "0")
ContentLengthOf(res, nextRes) ==
  IF nextRes.hdrCL # 0 THEN nextRes.hdrCL ELSE res.ContentLength

roundTrip(r) ==
  /\ Running
  /\ req[r].pc = "roundTrip"
  /\ req' = [req EXCEPT ![r].pc = "done",
                        ![r].res.ContentLength = ContentLengthOf(req[r].res, rd[req[r].cc].nextRes)]
  /\ UNCHANGED <<connMu, conns, nconn, mu, cc, wr, sock, rd, cs, dw, sweep, npeer>>

\* ------------------------------------------------------------ DATA writer
\* dataFrameWriter.Write has a value receiver: "dw.totalSize -= size64"
\* changes the copy the call works on, and the writer io.Copy holds keeps
\* its totalSize.
TotalSizeAfterWrite(totalSize, size) == totalSize

\* dataFrameWriter.Write of one chunk of n bytes io.Copy read from req.Body,
\* up to the return of WriteData or of the Write under Flush.  cc.mu is not taken.
dataFrameWriterWrite(r) ==
  /\ Running
  /\ dw[r].pc = "copy"
  /\ LET c == req[r].cc IN
     \E n \in 1..dw[r].left :
       LET endStream == n >= dw[r].totalSize
           err == FramerErr(wr[c])
           w == FramerWrite(wr[c], DataFrame(req[r].id, endStream, n))
       IN IF err # "nil"
            THEN /\ wr' = [wr EXCEPT ![c] = [w EXCEPT !.werr = err]]
                 /\ dw' = [dw EXCEPT ![r].pc = "done", ![r].err = err, ![r].left = @ - n]
            ELSE IF endStream
              THEN /\ wr' = [wr EXCEPT ![c] = FlushBegin(w, sock[c])]
                   /\ dw' = [dw EXCEPT ![r].pc = "flush", ![r].pend = FlushErr(w, sock[c]),
                                       ![r].left = @ - n]
              ELSE /\ wr' = [wr EXCEPT ![c] = w]
                   /\ dw' = [dw EXCEPT ![r].left = @ - n,
                                       ![r].totalSize = TotalSizeAfterWrite(@, n),
                                       ![r].pc = IF dw[r].left - n > 0 THEN "copy" ELSE "done"]
  /\ UNCHANGED <<connMu, conns, nconn, mu, cc, sock, rd, cs, req, sweep, npeer>>

\* dataFrameWriter.Write: Flush returns; its error goes to cc.werr and stops io.Copy.
dataFrameWriterFlushed(r) ==
  /\ Running
  /\ dw[r].pc = "flush"
  /\ LET c == req[r].cc
         err == dw[r].pend
         w == FlushEnd(wr[c], err)
     IN
       /\ wr' = [wr EXCEPT ![c] = IF err # "nil" THEN [w EXCEPT !.werr = err] ELSE w]
       /\ dw' = [dw EXCEPT ![r].pend = "nil", ![r].err = err,
                           ![r].pc = IF err = "nil" /\ dw[r].left > 0 THEN "copy" ELSE "done"]
  /\ UNCHANGED <<connMu, conns, nconn, mu, cc, sock, rd, cs, req, sweep, npeer>>

\* ----------------------------------------------------------------- tunnel
\* clientDataConn.Write: WriteData(ID, false, p), then Flush up to the return
\* of the Write under it.  cc.mu is not taken.
clientDataConnWrite(r) ==
  /\ Running
  /\ req[r].pc = "tunnel"
  /\ req[r].twrites < MaxTunnelWrites
  /\ LET c == req[r].cc
         err == FramerErr(wr[c])
         w == FramerWrite(wr[c], DataFrame(req[r].id, FALSE, 1))
     IN IF err # "nil"
          THEN /\ wr' = [wr EXCEPT ![c] = [w EXCEPT !.werr = err]]
               /\ req' = [req EXCEPT ![r].twrites = @ + 1]
          ELSE /\ wr' = [wr EXCEPT ![c] = FlushBegin(w, sock[c])]
               /\ req' = [req EXCEPT ![r].twrites = @ + 1, ![r].pc = "tflush",
                                     ![r].pend = FlushErr(w, sock[c])]
  /\ UNCHANGED <<connMu, conns, nconn, mu, cc, sock, rd, cs, dw, sweep, npeer>>

\* clientDataConn.Write: Flush returns; its error goes to cc.werr.
clientDataConnFlushed(r) ==
  /\ Running
  /\ req[r].pc = "tflush"
  /\ LET c == req[r].cc
         err == req[r].pend
         w == FlushEnd(wr[c], err)
     IN
       /\ wr' = [wr EXCEPT ![c] = IF err # "nil" THEN [w EXCEPT !.werr = err] ELSE w]
       /\ req' = [req EXCEPT ![r].pc = "tunnel", ![r].pend = "nil"]
  /\ UNCHANGED <<connMu, conns, nconn, mu, cc, sock, rd, cs, dw, sweep, npeer>>

\* clientDataConn.Close: cc.werr takes whatever WriteRSTStream returned.
WerrAfterClose(werr, err) == err

\* clientDataConn.Close: RST_STREAM, cc.werr = err, the stream leaves the
\* registry and its pipe is closed.  cc.mu is not taken.
clientDataConnClose(r) ==
  /\ Running
  /\ req[r].pc = "tunnel"
  /\ LET c == req[r].cc
         id == req[r].id
         err == FramerErr(wr[c])
         w == FramerWrite(wr[c], RSTStreamFrame(id))
     IN
       /\ wr' = [wr EXCEPT ![c] = [w EXCEPT !.werr = WerrAfterClose(@, err)]]
       /\ IF id \in cc[c].streams
            THEN /\ cc' = [cc EXCEPT ![c].streams = @ \ {id}]
                 /\ cs' = [cs EXCEPT ![c][id].pipe = "closed"]
            ELSE UNCHANGED <<cc, cs>>
       /\ req' = [req EXCEPT ![r].pc = "closed", ![r].err = err]
  /\ UNCHANGED <<connMu, conns, nconn, mu, sock, rd, dw, sweep, npeer>>

\* ------------------------------------------------------------ reader task
removeClientConn(c) == filterOutClientConn(conns, c)

\* The reader's error for a read on a socket that is not open.
ReadErr(s) == IF s = "closed" THEN "errClosed" ELSE "EOF"

\* A contiguity check that looks at CONTINUATION frames only.
ProtocolViolationOfContinuation(f, continueStreamID) ==
  f.type = "CONTINUATION" /\ f.sid # continueStreamID

\* The contiguity check at the top of the loop.
ProtocolViolation(f, continueStreamID) ==
  IF f.type = "CONTINUATION" THEN f.sid # continueStreamID ELSE continueStreamID # 0

\* readLoop: ReadFrame fails; cc.readerErr = err; return
readFrameErr(c) ==
  /\ Running
  /\ rd[c].pc = "read"
  /\ sock[c] # "open"
  /\ rd' = [rd EXCEPT ![c].pc = "cleanup", ![c].readerErr = ReadErr(sock[c])]
  /\ UNCHANGED <<connMu, conns, nconn, mu, cc, wr, sock, cs, req, dw, sweep, npeer>>

\* readLoop: ReadFrame returns a frame (f holds it until the loop is done
\* with it or reads the next one); the contiguity check; frames of even
\* streams are skipped.  The peer sends frames of Frames.  sawGoAway notes a
\* GOAWAY read while a stream is pending.
readFrame(c, Frames) ==
  /\ Running
  /\ rd[c].pc = "read"
  /\ sock[c] = "open"
  /\ npeer < MaxPeerFrames
  /\ npeer' = npeer + 1
  /\ \E f \in Frames :
       rd' = [rd EXCEPT ![c] =
         IF ProtocolViolation(f, @.continueStreamID)
           THEN [@ EXCEPT !.pc = "cleanup", !.readerErr = "errProtocol", !.f = f]
         ELSE IF f.sid % 2 = 0
           THEN [@ EXCEPT !.f = f,
                          !.sawGoAway = @ \/ (f.type = "GOAWAY" /\ cc[c].streams # {})]
         ELSE [@ EXCEPT !.pc = "lookup", !.f = f,
                        !.sawGoAway = @ \/ (f.type = "GOAWAY" /\ cc[c].streams # {})]]
  /\ UNCHANGED <<connMu, conns, nconn, mu, cc, wr, sock, cs, req, dw, sweep>>

\* The peer closes the connection, or the network fails.
peerClose(c) ==
  /\ Running
  /\ sock[c] = "open"
  /\ sock' = [sock EXCEPT ![c] = "broken"]
  /\ UNCHANGED <<connMu, conns, nconn, mu, cc, wr, rd, cs, req, dw, sweep, npeer>>

\* continueStreamID after a frame that got past the stream lookup.
ContinueStreamIDAfter(f, continueStreamID) ==
  IF f.type \in {"HEADERS", "CONTINUATION"}
    THEN IF f.eh THEN 0 ELSE f.sid
    ELSE continueStreamID

\* The stream after the frame's case of the switch and the streamEnded step.
StreamAfterFrame(s, f) ==
  LET t == CASE f.type = "HEADERS" -> [s EXCEPT !.pipe = "open", !.piped = 0]
             [] f.type = "DATA" -> IF s.pipe = "open" THEN [s EXCEPT !.piped = @ + 1] ELSE s
             [] OTHER -> s
  IN IF f.es THEN [t EXCEPT !.pipe = "closed"] ELSE t

\* readLoop from streamByID (which takes cc.mu) to just before the send on
\* cs.resc.  A frame of an untracked stream is dropped; DATA for a stream
\* whose pipe was never created dereferences the nil cs.pw; GOAWAY goes on to
\* removeClientConn.
readDispatch(c) ==
  /\ Running
  /\ rd[c].pc = "lookup"
  /\ mu[c] = Free
  /\ LET f == rd[c].f
         id == f.sid
     IN
       /\ cc' = [cc EXCEPT ![c].streams = IF f.es THEN @ \ {id} ELSE @]
       /\ IF id \notin cc[c].streams
            THEN /\ rd' = [rd EXCEPT ![c].pc = "read", ![c].f = NoFrame]
                 /\ UNCHANGED cs
          ELSE IF f.type = "DATA" /\ cs[c][id].pipe = "nil"
            THEN /\ rd' = [rd EXCEPT ![c].pc = "panic"]
                 /\ UNCHANGED cs
          ELSE IF f.type = "GOAWAY"
            THEN /\ rd' = [rd EXCEPT ![c].pc = "goaway"]
                 /\ UNCHANGED cs
          ELSE /\ cs' = [cs EXCEPT ![c][id] = StreamAfterFrame(@, f)]
               /\ rd' = [rd EXCEPT ![c] =
                    [@ EXCEPT !.nextRes = CASE f.type = "HEADERS" -> OnNewHeaderField(NewResponse(id), f)
                                            [] f.type = "CONTINUATION" -> OnNewHeaderField(@, f)
                                            [] OTHER -> @,
                              !.continueStreamID = ContinueStreamIDAfter(f, @),
                              !.activeRes = IF f.es THEN @ \ {id} ELSE @,
                              !.pc = IF f.type \in {"HEADERS", "CONTINUATION"} /\ f.eh
                                       THEN "deliver" ELSE "read",
                              !.f = IF f.type \in {"HEADERS", "CONTINUATION"} /\ f.eh
                                       THEN f ELSE NoFrame]]
  /\ UNCHANGED <<connMu, conns, nconn, mu, wr, sock, req, dw, sweep, npeer>>

\* readLoop, case *GoAwayFrame: cc.t.removeClientConn(cc)
readGoAwayRemove(c) ==
  /\ Running
  /\ rd[c].pc = "goaway"
  /\ connMu = Free
  /\ conns' = removeClientConn(c)
  /\ rd' = [rd EXCEPT ![c].pc = "setGoAway"]
  /\ UNCHANGED <<connMu, nconn, mu, cc, wr, sock, cs, req, dw, sweep, npeer>>

\* readLoop, case *GoAwayFrame: cc.setGoAway(f)
setGoAway(c) ==
  /\ Running
  /\ rd[c].pc = "setGoAway"
  /\ mu[c] = Free
  /\ cc' = [cc EXCEPT ![c].goAway = TRUE]
  /\ rd' = [rd EXCEPT ![c].pc = "read", ![c].f = NoFrame]
  /\ UNCHANGED <<connMu, conns, nconn, mu, wr, sock, cs, req, dw, sweep, npeer>>

\* readLoop, headersEnded: activeRes[streamID] = cs; cs.resc <- {res, cc, cs}.
\* The send blocks while the one slot of resc is taken.
readDeliver(c) ==
  /\ Running
  /\ rd[c].pc = "deliver"
  /\ LET id == rd[c].f.sid IN
       /\ Len(cs[c][id].resc) < 1
       /\ cs' = [cs EXCEPT ![c][id].resc = Append(@, rd[c].nextRes), ![c][id].nres = @ + 1]
       /\ rd' = [rd EXCEPT ![c].pc = "read", ![c].f = NoFrame, ![c].activeRes = @ \cup {id}]
  /\ UNCHANGED <<connMu, conns, nconn, mu, cc, wr, sock, req, dw, sweep, npeer>>

\* readLoop's deferred calls, first part: the pipes of activeRes are closed
\* with the reader's error and readerDone is closed.
readCleanup(c) ==
  /\ Running
  /\ rd[c].pc = "cleanup"
  /\ cs' = [cs EXCEPT ![c] = [id \in DOMAIN @ |->
               IF id \in rd[c].activeRes /\ @[id].pipe = "open"
                 THEN [@[id] EXCEPT !.pipe = "error"] ELSE @[id]]]
  /\ rd' = [rd EXCEPT ![c].pc = "remove"]
  /\ UNCHANGED <<connMu, conns, nconn, mu, cc, wr, sock, req, dw, sweep, npeer>>

\* readLoop's deferred calls, last: cc.t.removeClientConn(cc)
readRemove(c) ==
  /\ Running
  /\ rd[c].pc = "remove"
  /\ connMu = Free
  /\ conns' = removeClientConn(c)
  /\ rd' = [rd EXCEPT ![c].pc = "done"]
  /\ UNCHANGED <<connMu, nconn, mu, cc, wr, sock, cs, req, dw, sweep, npeer>>

\* ------------------------------------------------- CloseIdleConnections
CloseIdleConnectionsLock ==
  /\ Running
  /\ sweep.pc = "idle"
  /\ sweep.n < MaxSweeps
  /\ connMu = Free
  /\ connMu' = SweepTask
  /\ sweep' = [pc |-> "scan", k |-> 1, n |-> sweep.n + 1]
  /\ UNCHANGED <<conns, nconn, mu, cc, wr, sock, rd, cs, req, dw, npeer>>

\* A closeIfIdle that does not look at the registry.
closeIfIdleAlways ==
  /\ Running
  /\ sweep.pc = "scan"
  /\ sweep.k <= Len(conns)
  /\ LET c == conns[sweep.k] IN
       /\ mu[c] = Free
       /\ cc' = [cc EXCEPT ![c].closed = TRUE]
       /\ sock' = [sock EXCEPT ![c] = "closed"]
  /\ sweep' = [sweep EXCEPT !.k = @ + 1]
  /\ UNCHANGED <<connMu, conns, nconn, mu, wr, rd, cs, req, dw, npeer>>

\* closeIfIdle of the next connection of the pool
closeIfIdle ==
  /\ Running
  /\ sweep.pc = "scan"
  /\ sweep.k <= Len(conns)
  /\ LET c == conns[sweep.k] IN
       /\ mu[c] = Free
       /\ IF Cardinality(cc[c].streams) > 0
            THEN UNCHANGED <<cc, sock>>
            ELSE /\ cc' = [cc EXCEPT ![c].closed = TRUE]
                 /\ sock' = [sock EXCEPT ![c] = "closed"]
  /\ sweep' = [sweep EXCEPT !.k = @ + 1]
  /\ UNCHANGED <<connMu, conns, nconn, mu, wr, rd, cs, req, dw, npeer>>

CloseIdleConnectionsUnlock ==
  /\ Running
  /\ sweep.pc = "scan"
  /\ sweep.k > Len(conns)
  /\ connMu' = Free
  /\ sweep' = [sweep EXCEPT !.pc = "idle", !.k = 0]
  /\ UNCHANGED <<conns, nconn, mu, cc, wr, sock, rd, cs, req, dw, npeer>>

\* ----------------------------------------------------------- other callers
\* Round trips of callers other than Reqs on connection c, one after the
\* other and each complete (getClientConn, newStream, a response that ends
\* the stream): the registry is as before and nextStreamID has moved on.
\* The last of them was admitted with nextStreamID < 2^31 - 1, so the
\* counter ends at 2^31 - 3 or 2^31 - 1.
otherRoundTrips(c) ==
  /\ Running
  /\ \E k \in 1..Len(conns) : conns[k] = c
  /\ connMu = Free /\ mu[c] = Free
  /\ rd[c].pc = "read" /\ sock[c] = "open"
  /\ ~cc[c].closed /\ canTakeNewRequest(c)
  /\ \E n \in {MaxStreamID - 2, MaxStreamID} :
       /\ Uint32Less(cc[c].nextStreamID, n)
       /\ cc' = [cc EXCEPT ![c].nextStreamID = n]
  /\ UNCHANGED <<connMu, conns, nconn, mu, wr, sock, rd, cs, req, dw, sweep, npeer>>

\* ----------------------------------------------------------- specification
\* The steps every caller takes, for requests of the given kinds.
Caller(r, Ops, Lens, Ms) ==
  \/ RoundTrip(r, Ops, Lens)
  \/ getClientConnLock(r)
  \/ getClientConnScan(r)
  \/ newClientConnFail(r)
  \/ newClientConn(r, Ms)
  \/ getClientConnAppend(r)
  \/ doLock(r)
  \/ doWriteHeaders(r)
  \/ doFlush(r)
  \/ doUnlock(r)

\* The steps of a reader task whose peer sends frames of Frames.
Reader(c, Frames) ==
  \/ readFrame(c, Frames)
  \/ readDispatch(c)
  \/ readDeliver(c)
  \/ readCleanup(c)
  \/ readRemove(c)

\* Complete responses, response bodies and GOAWAY.
PoolFrames ==
  {f \in PeerFrames : \/ f.type = "GOAWAY"
                      \/ f.type = "HEADERS" /\ f.eh /\ f.cl = 0 /\ f.sid % 2 = 1
                      \/ f.type = "DATA"}

\* The pool: GET requests, CloseIdleConnections, GOAWAY, readers that end.
NextPool ==
  \/ \E r \in Reqs : doAwait(r)
  \/ \E r \in Reqs : Caller(r, {"GET"}, {1}, DefaultSettings)
  \/ \E r \in Reqs : roundTrip(r)
  \/ \E c \in Conns : Reader(c, PoolFrames)
  \/ \E c \in Conns : readFrameErr(c)
  \/ \E c \in Conns : readGoAwayRemove(c)
  \/ \E c \in Conns : setGoAway(c)
  \/ CloseIdleConnectionsLock
  \/ closeIfIdle
  \/ CloseIdleConnectionsUnlock

SpecPool == Init /\ [][NextPool]_vars

\* The reader: GET requests answered with any frames on any stream.
ReadFrames == {f \in PeerFrames : f.type # "GOAWAY"}

NextRead ==
  \/ \E r \in Reqs : doAwait(r)
  \/ \E r \in Reqs : Caller(r, {"GET"}, {1}, DefaultSettings)
  \/ \E r \in Reqs : roundTrip(r)
  \/ \E c \in Conns : Reader(c, ReadFrames)

SpecRead == Init /\ [][NextRead]_vars

\* The writer: header blocks of every length against every MAX_FRAME_SIZE,
\* request bodies in chunks, a peer that does not answer and may go away.
NextWrite ==
  \/ \E r \in Reqs : Caller(r, {"GET", "POST"}, 1..MaxHdrLen,
                          Settings(SettingsMaxFrameSize, {DefaultMaxConcurrentStreams}))
  \/ \E r \in Reqs : dataFrameWriterWrite(r)
  \/ \E r \in Reqs : dataFrameWriterFlushed(r)
  \/ \E c \in Conns : peerClose(c)

SpecWrite == Init /\ [][NextWrite]_vars

\* The tunnel: CONNECT and GET requests, answered with complete header blocks.
TunnelFrames == {f \in PeerFrames : f.type = "HEADERS" /\ f.eh /\ f.cl = 0 /\ f.sid % 2 = 1}

NextTunnel ==
  \/ \E r \in Reqs : doAwait(r)
  \/ \E r \in Reqs : Caller(r, {"GET", "CONNECT"}, {1}, DefaultSettings)
  \/ \E r \in Reqs : roundTrip(r)
  \/ \E r \in Reqs : clientDataConnWrite(r)
  \/ \E r \in Reqs : clientDataConnFlushed(r)
  \/ \E r \in Reqs : clientDataConnClose(r)
  \/ \E c \in Conns : Reader(c, TunnelFrames)
  \/ \E c \in Conns : readFrameErr(c)
  \/ \E c \in Conns : peerClose(c)

SpecTunnel == Init /\ [][NextTunnel]_vars

\* Stream allocation: GET requests racing for connections with
\* CloseIdleConnections and with readers that end when their socket is closed.
NextAlloc ==
  \/ \E r \in Reqs : Caller(r, {"GET"}, {1}, DefaultSettings)
  \/ \E c \in Conns : readFrameErr(c)
  \/ \E c \in Conns : readCleanup(c)
  \/ \E c \in Conns : readRemove(c)
  \/ CloseIdleConnectionsLock
  \/ closeIfIdle
  \/ CloseIdleConnectionsUnlock

SpecAlloc == Init /\ [][NextAlloc]_vars

\* Header blocks: requests with and without a body, blocks of every length
\* against every MAX_FRAME_SIZE, concurrently on shared connections.
NextFragments ==
  \E r \in Reqs : Caller(r, {"GET", "CONNECT"}, 1..MaxHdrLen,
                          Settings(SettingsMaxFrameSize, {DefaultMaxConcurrentStreams}))

SpecFragments == Init /\ [][NextFragments]_vars

\* Idle connections: GET requests, answered by a HEADERS frame that ends the
\* stream, and CloseIdleConnections; a reader whose socket was closed has
\* not yet come back from ReadFrame.
IdleFrames ==
  {f \in PeerFrames : f.type = "HEADERS" /\ f.eh /\ f.es /\ f.cl = 0 /\ f.sid % 2 = 1}

NextIdle ==
  \/ \E r \in Reqs : Caller(r, {"GET"}, {1}, DefaultSettings)
  \/ \E c \in Conns : readFrame(c, IdleFrames)
  \/ \E c \in Conns : readDispatch(c)
  \/ \E c \in Conns : readDeliver(c)
  \/ CloseIdleConnectionsLock
  \/ closeIfIdle
  \/ CloseIdleConnectionsUnlock

SpecIdle == Init /\ [][NextIdle]_vars

\* Header-block contiguity: two GET requests and a peer that sends HEADERS,
\* CONTINUATION, DATA and RST_STREAM frames on any stream (a request's, an
\* untracked one, an even one) in any order.
ContigFrames ==
  {f \in PeerFrames : f.type \in {"HEADERS", "CONTINUATION", "DATA", "RST_STREAM"} /\ f.cl = 0}

NextContig ==
  \/ \E r \in 1..2 : doAwait(r)
  \/ \E r \in 1..2 : Caller(r, {"GET"}, {1}, DefaultSettings)
  \/ \E c \in Conns : Reader(c, ContigFrames)

SpecContig == Init /\ [][NextContig]_vars

\* The stream limit: concurrent GET requests to a peer whose SETTINGS frame
\* sets MAX_CONCURRENT_STREAMS to the number of callers and answers with
\* HEADERS frames that end the stream.
NextLimit ==
  \/ \E r \in Reqs : Caller(r, {"GET"}, {1}, Settings({DefaultMaxFrameSize}, {MaxReqs}))
  \/ \E c \in Conns : readFrame(c, IdleFrames)
  \/ \E c \in Conns : readDispatch(c)
  \/ \E c \in Conns : readDeliver(c)

SpecLimit == Init /\ [][NextLimit]_vars

\* The end of the stream ids: concurrent GET requests on a connection that
\* many earlier round trips have used.
NextWrap ==
  \/ \E r \in Reqs : Caller(r, {"GET"}, {1}, DefaultSettings)
  \/ \E c \in Conns : otherRoundTrips(c)

SpecWrap == Init /\ [][NextWrap]_vars

\* The two mutexes: two GET requests with their retries, CloseIdleConnections,
\* GOAWAY frames and readers that end.
GoAwayFrames == {f \in PeerFrames : f.type = "GOAWAY"}

NextLocks ==
  \/ \E r \in 1..2 : Caller(r, {"GET"}, {1}, DefaultSettings)
  \/ \E c \in Conns : readFrame(c, GoAwayFrames)
  \/ \E c \in Conns : readDispatch(c)
  \/ \E c \in Conns : readGoAwayRemove(c)
  \/ \E c \in Conns : setGoAway(c)
  \/ \E c \in Conns : readFrameErr(c)
  \/ \E c \in Conns : readCleanup(c)
  \/ \E c \in Conns : readRemove(c)
  \/ CloseIdleConnectionsLock
  \/ closeIfIdle
  \/ CloseIdleConnectionsUnlock

SpecLocks == Init /\ [][NextLocks]_vars

\* A peer whose SETTINGS frame may set MAX_FRAME_SIZE to 0: GET requests,
\* the header loop followed as long as the connection has been handed fewer
\* than MaxWire frames.
ZeroSettings == Settings({0, DefaultMaxFrameSize}, {DefaultMaxConcurrentStreams})

NextZero ==
  \/ \E r \in Reqs : RoundTrip(r, {"GET"}, 1..MaxHdrLen)
  \/ \E r \in Reqs : getClientConnLock(r)
  \/ \E r \in Reqs : getClientConnScan(r)
  \/ \E r \in Reqs : newClientConnFail(r)
  \/ \E r \in Reqs : newClientConn(r, ZeroSettings)
  \/ \E r \in Reqs : getClientConnAppend(r)
  \/ \E r \in Reqs : doLock(r)
  \/ \E r \in Reqs : doWriteHeaders(r) /\ Len(wr[req[r].cc].wire) < MaxWire
  \/ \E r \in Reqs : doFlush(r)
  \/ \E r \in Reqs : doUnlock(r)

SpecZero == Init /\ [][NextZero]_vars

\* -------------------------------------------------------------- properties
InPool(c) == \E k \in 1..Len(conns) : conns[k] = c

\* The frames of the header blocks, and the DATA frames, written on stream id of connection c.
HeaderFramesOf(c, id) ==
  SelectSeq(wr[c].wire, LAMBDA f : f.sid = id /\ f.type \in {"HEADERS", "CONTINUATION"})
DataFramesOf(c, id) ==
  SelectSeq(wr[c].wire, LAMBDA f : f.sid = id /\ f.type = "DATA")

RECURSIVE ConcatFrags(_)
ConcatFrags(fs) == IF fs = <<>> THEN <<>> ELSE Head(fs).frag \o ConcatFrags(Tail(fs))

RECURSIVE SumLen(_, _)
SumLen(fs, n) == IF n = 0 THEN 0 ELSE fs[n].len + SumLen(fs, n - 1)

\* C1: on every connection, a HEADERS or CONTINUATION frame written without
\* END_HEADERS is followed on the wire by a frame of the same stream: no
\* frame of another stream gets between the frames of a header block.
C1_HeaderBlockContiguous ==
  \A c \in Conns : \A k \in 2..Len(wr[c].wire) :
    LET p == wr[c].wire[k - 1]
        f == wr[c].wire[k]
    IN (p.type \in {"HEADERS", "CONTINUATION"} /\ ~p.eh) => f.sid = p.sid

\* C2: the reader sends at most one result on the result channel of a
\* stream, whatever frames the peer sends on it.
C2_OneResultPerStream ==
  \A c \in Conns : \A id \in DOMAIN cs[c] : cs[c][id].nres <= 1

\* C3: once the reader has read a GOAWAY frame while a stream was pending and
\* is back at ReadFrame, the connection has left the pool, its goAway is set
\* and canTakeNewRequest is false.
C3_GoAwayRetiresConn ==
  \A c \in Conns :
    (rd[c].sawGoAway /\ rd[c].pc = "read") =>
      (cc[c].goAway /\ ~InPool(c) /\ ~canTakeNewRequest(c))

\* C4: a connection getClientConn returns from the pool does not have its
\* closed flag set at that moment.
C4_SelectedNotClosed ==
  [][\A r \in Reqs :
       (req[r].pc = "scan" /\ req'[r].pc = "do") => ~cc[req'[r].cc].closed]_vars

\* C5: a retry after errClientConnClosed selects a connection other than the
\* one it found closed, and no RoundTrip ends by using up its attempts.
C5_RetryOnFreshConn ==
  [][\A r \in Reqs :
       /\ (req[r].i > 0 /\ req[r].pc = "scan" /\ req'[r].pc = "do") => req'[r].cc # req[r].cc
       /\ req'[r].err # "errMaxRetry"]_vars

\* C6: once cc.werr is set it keeps its value, and no further frame reaches the socket.
C6_StickyWriteError ==
  [][\A c \in Conns :
       wr[c].werr # "nil" => (wr'[c].werr = wr[c].werr /\ wr'[c].sent = wr[c].sent)]_vars

\* C7: the stream ids a connection has allocated are, in allocation order,
\* 1, 3, 5, ...: odd, strictly increasing, pairwise distinct.
C7_StreamIDsOddIncreasing ==
  \A c \in Conns :
    LET a == cc[c].alloc IN
      /\ \A i \in 1..Len(a) : a[i] % 2 = 1 /\ a[i] = 2 * i - 1
      /\ \A i \in 2..Len(a) : Uint32Less(a[i - 1], a[i])
      /\ \A i, j \in 1..Len(a) : i # j => a[i] # a[j]

\* C7 witness: two requests hold streams of one connection at the same time.
C7_TwoStreamsAllocated ==
  \E c \in Conns : Len(cc[c].alloc) >= 2 /\ Cardinality(cc[c].streams) >= 2

\* C8: the response a round trip returns was created by a HEADERS frame of
\* its own stream, and its ContentLength is 0 or the Content-Length a header
\* block of that stream carried (the peer answers stream s with Content-Length s),
\* never that of another stream's header block.
C8_OwnResponse ==
  \A r \in Reqs :
    (req[r].pc = "done" /\ req[r].err = "nil") =>
      (req[r].res.sid = req[r].id /\ req[r].res.ContentLength \in {0, req[r].id})

\* C9: the i-th DATA frame of a request body of ContentLength N carries
\* END_STREAM iff its length is at least N minus the lengths of the frames before it.
C9_EndStreamByRemaining ==
  \A r \in Reqs :
    (req[r].op = "POST" /\ req[r].id # 0) =>
      LET ds == DataFramesOf(req[r].cc, req[r].id) IN
        \A i \in 1..Len(ds) :
          ds[i].es <=> (ds[i].len >= req[r].contentLength - SumLen(ds, i - 1))

\* do is past its header loop.
HeadersWritten(r) == req[r].id # 0 /\ req[r].pc # "hdrs"

\* C10: a header block of L > 0 bytes is written, for maxFrameSize M > 0, as
\* ceil(L/M) frames of its stream: HEADERS first with END_STREAM = ~hasBody,
\* CONTINUATION after it, fragments of at most M bytes that concatenate to
\* the block, END_HEADERS on the last frame only.
C10_HeaderBlockFragments ==
  \A r \in Reqs :
    (HeadersWritten(r) /\ cc[req[r].cc].maxFrameSize > 0) =>
      LET hs == HeaderFramesOf(req[r].cc, req[r].id)
          L == Len(req[r].block)
          M == cc[req[r].cc].maxFrameSize
      IN /\ Len(hs) = (L + M - 1) \div M
         /\ hs[1].type = "HEADERS" /\ hs[1].es = ~req[r].hasBody
         /\ \A i \in 2..Len(hs) : hs[i].type = "CONTINUATION"
         /\ \A i \in 1..Len(hs) : Len(hs[i].frag) <= M /\ (hs[i].eh <=> i = Len(hs))
         /\ ConcatFrags(hs) = req[r].block

\* C10 witness: a block one byte longer than maxFrameSize went out as HEADERS plus one CONTINUATION.
C10_BlockOfMaxFrameSizePlusOne ==
  \E r \in Reqs :
    /\ HeadersWritten(r)
    /\ Len(req[r].block) = cc[req[r].cc].maxFrameSize + 1
    /\ Len(HeaderFramesOf(req[r].cc, req[r].id)) = 2

\* C11: a connection whose closed flag is set has an empty stream registry.
C11_ClosedHasNoStreams ==
  \A c \in Conns : cc[c].closed => cc[c].streams = {}

\* C11 witness: CloseIdleConnections closed a connection that had carried a
\* stream, after the stream ended.
C11_ClosedAfterUse ==
  \E c \in Conns : cc[c].closed /\ Len(cc[c].alloc) > 0 /\ sock[c] = "closed"

\* C12: when the reader reads a CONTINUATION frame whose stream id is not
\* continueStreamID, or another frame while continueStreamID is not 0, it
\* goes to its exit with the protocol error, and that step leaves the
\* registry, the streams with their pipes and the pending response as they
\* were; no other frame gives the protocol error.
C12_ContiguityErrorEndsReader ==
  [][\A c \in Conns :
       (rd[c].pc = "read" /\ npeer' = npeer + 1 /\ rd'[c] # rd[c]) =>
         LET f == rd'[c].f
             id == rd[c].continueStreamID
             bad == \/ f.type = "CONTINUATION" /\ f.sid # id
                    \/ f.type # "CONTINUATION" /\ id # 0
         IN IF bad
              THEN /\ rd'[c].pc = "cleanup" /\ rd'[c].readerErr = "errProtocol"
                   /\ cc' = cc /\ cs' = cs /\ rd'[c].nextRes = rd[c].nextRes
              ELSE rd'[c].readerErr = rd[c].readerErr /\ rd'[c].pc \in {"read", "lookup"}]_vars

\* C12 witness: a frame that is not a CONTINUATION, read in the middle of a
\* header block, has ended the reader with the protocol error.
C12_EndedInsideHeaderBlock ==
  \E c \in Conns :
    /\ rd[c].pc = "done" /\ rd[c].readerErr = "errProtocol"
    /\ rd[c].f.type # "CONTINUATION" /\ rd[c].continueStreamID # 0

\* C13: the registry of a connection always holds fewer streams than the
\* peer's MAX_CONCURRENT_STREAMS.
C13_RegistryBelowLimit ==
  \A c \in Conns : Cardinality(cc[c].streams) < cc[c].maxConcurrentStreams

\* C14: every stream id in a registry is at most 2^31 - 1 (an id from 2^31
\* on is held as a negative number).
C14_StreamIDsBelowBound ==
  \A c \in Conns : \A id \in cc[c].streams : id \in 1..MaxStreamID

\* C15: once the reader of a connection has ended, the connection is out of
\* the pool, no stream of its registry has an open body pipe, and no request
\* is left waiting on an empty result channel of one of its streams.
C15_ReaderExitReleasesRequests ==
  \A c \in Conns :
    rd[c].pc = "done" =>
      /\ ~InPool(c)
      /\ \A id \in cc[c].streams : cs[c][id].pipe # "open"
      /\ \A r \in Reqs :
           (req[r].cc = c /\ req[r].pc = "await") => Len(cs[c][req[r].id].resc) > 0

\* C16: when the reader is done with a frame that carries END_STREAM or with
\* an RST_STREAM frame, the frame's stream is not in the registry.
C16_EndOrResetRemovesStream ==
  [][\A c \in Conns :
       (rd[c].pc = "lookup" /\ rd'[c].pc # "lookup" /\ (rd[c].f.es \/ rd[c].f.type = "RST_STREAM"))
         => rd[c].f.sid \notin cc'[c].streams]_vars

\* C17: the task that dials and handshakes a connection (newClientConn)
\* does not hold connMu while it does so, and neither does the task that
\* closes a socket (closeIfIdle).
C17_NoIOUnderConnMu ==
  [][/\ \A r \in Reqs :
          (req[r].pc = "scan" /\ req'[r].pc = "append" /\ sock'[req'[r].cc] = "open")
            => connMu # ReqTask(r)
     /\ (sweep.pc = "scan" /\ \E c \in Conns : sock[c] = "open" /\ sock'[c] = "closed")
            => connMu # SweepTask]_vars

\* C18: a task that takes connMu, or that stands before a Lock of connMu
\* (getClientConn, the reader's removeClientConn on GOAWAY and at its exit),
\* holds no cc.mu.
C18_ConnMuBeforeMu ==
  [][/\ (connMu' # connMu /\ connMu' # Free) => \A c \in Conns : mu[c] # connMu'
     /\ \A r \in Reqs : req'[r].pc = "getClientConn" => \A c \in Conns : mu'[c] # ReqTask(r)
     /\ \A d \in Conns : rd'[d].pc \in {"goaway", "remove"} =>
                             \A c \in Conns : mu'[c] # ReaderTask(d)]_vars

\* C18 witness: a request that held cc.mu in do, was refused and retried,
\* holds connMu while another request holds a cc.mu.
C18_RetryHoldsConnMu ==
  \E r \in Reqs :
    /\ req[r].i > 0 /\ connMu = ReqTask(r)
    /\ \E c \in Conns : mu[c] # Free

\* C19: the header loop of do writes at most as many frames as the header
\* block has bytes (every iteration takes at least one byte off the block),
\* so it comes to its end.
C19_HeaderLoopBounded ==
  \A r \in Reqs :
    req[r].id # 0 => Len(HeaderFramesOf(req[r].cc, req[r].id)) <= Len(req[r].block)

\* C20: when the reader is back at ReadFrame after a HEADERS or CONTINUATION
\* frame that passed the contiguity check, continueStreamID is non-zero iff
\* that frame lacked END_HEADERS.
C20_ContinueStreamIDTracksWire ==
  \A c \in Conns :
    (rd[c].pc = "read" /\ rd[c].f.type \in {"HEADERS", "CONTINUATION"}) =>
      (rd[c].continueStreamID # 0 <=> ~rd[c].f.eh)

====
